---- MODULE Spec2Model ----
(***************************************************************************)
(* The CURIE converter of src/lib.rs: a registry of Records held in two    *)
(* hash maps (prefix -> Record, URI prefix -> Record) and a trie over the  *)
(* URI-prefix strings, with the lookups find_by_prefix, find_by_uri_prefix,*)
(* find_by_uri and the conversions compress and expand.                    *)
(*                                                                         *)
(* Strings are sequences of one-character strings.  An Arc<Record> is      *)
(* modelled by the Record's content: add_record refuses a Record whose     *)
(* canonical prefix is already a key, so no two inserted Records are equal.*)
(* URI-prefix strings are drawn non-empty: what the trie of the trie_rs    *)
(* crate answers for an empty key is not decided by this repository.       *)
(***************************************************************************)
EXTENDS Naturals, Sequences, FiniteSets, TLC

VARIABLES prefix_map, uri_map, trie_builder, trie, inserted, last

vars == <<prefix_map, uri_map, trie_builder, trie, inserted, last>>

registry == <<prefix_map, uri_map, trie_builder, trie>>

(***************************************************************************)
(* Bounds of the model.                                                    *)
(***************************************************************************)
MaxRecords == 2
MaxSynonyms == 2
MaxLocalLen == 1

Prefixes == {<< >>, <<"p">>, <<"p", ":">>}
UriPrefixes == {<<"a">>, <<"a", ":">>, <<"b">>}
LocalChars == {"a", ":"}

StrsUpTo(chars, n) == UNION {[1..k -> chars] : k \in 0..n}

LocalIds == StrsUpTo(LocalChars, MaxLocalLen)

\* the Records a caller passes: at most MaxSynonyms synonyms in all, none of
\* them the Record's own canonical form
Records ==
  {r \in [prefix : Prefixes, uri_prefix : UriPrefixes,
          prefix_synonyms : SUBSET Prefixes,
          uri_prefix_synonyms : SUBSET UriPrefixes] :
     /\ Cardinality(r.prefix_synonyms) + Cardinality(r.uri_prefix_synonyms)
          <= MaxSynonyms
     /\ r.prefix \notin r.prefix_synonyms
     /\ r.uri_prefix \notin r.uri_prefix_synonyms}

\* the query strings
Uris == {f \o l : f \in UriPrefixes \cup {<< >>}, l \in LocalIds}
Curies == {p \o <<":">> \o l : p \in Prefixes, l \in LocalIds}
            \cup Prefixes \cup LocalIds

(***************************************************************************)
(* Option and Result values.                                               *)
(***************************************************************************)
None == <<"None">>
Some(x) == <<"Some", x>>
Ok == <<"Ok">>
DuplicateRecordError(key) == <<"Err", key>>
IsSome(o) == o[1] = "Some"
IsErr(o) == o[1] = "Err"

(***************************************************************************)
(* String helpers: str::strip_prefix, str::split, format!.                 *)
(***************************************************************************)
starts_with(s, p) == Len(p) <= Len(s) /\ SubSeq(s, 1, Len(p)) = p

strip_prefix(s, p) ==
  IF starts_with(s, p) THEN Some(SubSeq(s, Len(p) + 1, Len(s))) ELSE None

RECURSIVE split(_, _)
split(s, sep) ==
  IF \E i \in 1..Len(s) : s[i] = sep
    THEN LET i == CHOOSE i \in 1..Len(s) :
                    s[i] = sep /\ \A j \in 1..(i - 1) : s[j] # sep
         IN <<SubSeq(s, 1, i - 1)>> \o split(SubSeq(s, i + 1, Len(s)), sep)
    ELSE <<s>>

\* format! without the separator
format_curie_no_colon(prefix, id) == prefix \o id

format_curie(prefix, id) == prefix \o <<":">> \o id

\* format! with a separator put between the URI prefix and the identifier
format_uri_separator(uri_prefix, id) == uri_prefix \o <<"/">> \o id

format_uri(uri_prefix, id) == uri_prefix \o id

(***************************************************************************)
(* HashMap and trie helpers.                                               *)
(***************************************************************************)
contains_key(map, key) == key \in DOMAIN map

get(map, key) == IF key \in DOMAIN map THEN Some(map[key]) ELSE None

\* HashMap::insert of the same rec for every key of keys (a later insert
\* of an existing key overwrites its value)
insert(map, keys, rec) ==
  [k \in DOMAIN map \cup keys |-> IF k \in keys THEN rec ELSE map[k]]

\* a builder that starts afresh at every add_record
push_forget(builder, words) == words

push(builder, words) == builder \cup words

build(builder) == builder

\* every key of the trie that is a prefix of the query, shortest first
common_prefix_search(t, query) ==
  LET lens == {n \in 1..Len(query) : SubSeq(query, 1, n) \in t}
      RECURSIVE upto(_)
      upto(n) == IF n = 0 THEN << >>
                 ELSE IF n \in lens THEN Append(upto(n - 1), SubSeq(query, 1, n))
                 ELSE upto(n - 1)
  IN upto(Len(query))

\* the orders in which a HashSet may be iterated
iter(S) ==
  {f \in [1..Cardinality(S) -> S] : \A i, j \in 1..Cardinality(S) : f[i] = f[j] => i = j}

\* find_map that finds the synonym and does not strip it
find_map_unstripped(it, uri) ==
  IF \E i \in 1..Len(it) : starts_with(uri, it[i]) THEN Some(uri) ELSE None

find_map_strip(it, uri) ==
  IF \E i \in 1..Len(it) : starts_with(uri, it[i])
    THEN LET i == CHOOSE i \in 1..Len(it) :
                    /\ starts_with(uri, it[i])
                    /\ \A j \in 1..(i - 1) : ~starts_with(uri, it[j])
         IN strip_prefix(uri, it[i])
    ELSE None

(***************************************************************************)
(* The lookups, as functions of the current registry.                      *)
(***************************************************************************)
find_by_prefix(prefix) == get(prefix_map, prefix)

find_by_uri_prefix(uri_prefix) == get(uri_map, uri_prefix)

\* find_by_uri taking the first (shortest) common prefix, not the last
find_by_uri_first(uri) ==
  LET uri_in_u8s == common_prefix_search(trie, uri)
  IN IF Len(uri_in_u8s) = 0 THEN None
     ELSE find_by_uri_prefix(uri_in_u8s[1])

find_by_uri(uri) ==
  LET uri_in_u8s == common_prefix_search(trie, uri)
  IN IF Len(uri_in_u8s) = 0 THEN None
     ELSE find_by_uri_prefix(uri_in_u8s[Len(uri_in_u8s)])

\* the same closure without the or_else over the synonyms
compress_record_canonical_only(record, uri, it) ==
  LET id == strip_prefix(uri, record.uri_prefix)
  IN IF IsSome(id) THEN Some(format_curie(record.prefix, id[2])) ELSE None

\* the closure of compress: canonical URI prefix first, then the synonyms
\* in the iteration order it of the HashSet
compress_record(record, uri, it) ==
  LET canon == strip_prefix(uri, record.uri_prefix)
      id == IF IsSome(canon) THEN canon ELSE find_map_strip(it, uri)
  IN IF IsSome(id) THEN Some(format_curie(record.prefix, id[2])) ELSE None

\* every result compress(uri) can produce, one per iteration order
compress(uri) ==
  LET found == find_by_uri(uri)
  IN IF IsSome(found)
       THEN {compress_record(found[2], uri, it) :
               it \in iter(found[2].uri_prefix_synonyms)}
       ELSE {None}

\* expand splitting at the first ':' only, as splitn(2, ':') would
expand_first_colon(curie) ==
  LET parts == split(curie, ":")
  IN IF Len(parts) < 2 THEN None
     ELSE LET prefix == parts[1]
              id == SubSeq(curie, Len(parts[1]) + 2, Len(curie))
              found == find_by_prefix(prefix)
          IN IF IsSome(found) THEN Some(format_uri(found[2].uri_prefix, id))
             ELSE None

expand(curie) ==
  LET parts == split(curie, ":")
  IN IF Len(parts) # 2 THEN None
     ELSE LET prefix == parts[1]
              id == parts[2]
              found == find_by_prefix(prefix)
          IN IF IsSome(found) THEN Some(format_uri(found[2].uri_prefix, id))
             ELSE None

(***************************************************************************)
(* The caller: one call at a time; last holds the call made and what it    *)
(* returned until the caller drops it (a returned reference borrows the    *)
(* Converter, so it is dropped before the next add_record).                *)
(***************************************************************************)
Idle == [op |-> "idle", arg |-> << >>, ret |-> << >>]

Returned(op, arg, ret) ==
  /\ last = Idle
  /\ last' = [op |-> op, arg |-> arg, ret |-> ret]

Drop ==
  /\ last # Idle
  /\ last' = Idle
  /\ UNCHANGED <<registry, inserted>>

(***************************************************************************)
(* Converter::new                                                          *)
(***************************************************************************)
Init ==
  /\ prefix_map = << >>
  /\ uri_map = << >>
  /\ trie_builder = {}
  /\ trie = build({})
  /\ inserted = {}
  /\ last = Idle

(***************************************************************************)
(* Converter::add_record                                                   *)
(***************************************************************************)
\* add_record without the check of the URI index
add_record_prefix_check_only(record) ==
  IF contains_key(prefix_map, record.prefix)
    THEN /\ Returned("add_record", <<record.prefix, record.uri_prefix>>,
                     DuplicateRecordError(record.prefix))
         /\ UNCHANGED <<registry, inserted>>
    ELSE /\ Cardinality(inserted) < MaxRecords
         /\ prefix_map' = insert(prefix_map,
                                 {record.prefix} \cup record.prefix_synonyms, record)
         /\ uri_map' = insert(uri_map,
                              {record.uri_prefix} \cup record.uri_prefix_synonyms, record)
         /\ trie_builder' = push(trie_builder,
                                 {record.uri_prefix} \cup record.uri_prefix_synonyms)
         /\ trie' = build(trie_builder')
         /\ inserted' = inserted \cup {record}
         /\ Returned("add_record", <<record.prefix, record.uri_prefix>>, Ok)

add_record(record) ==
  IF contains_key(prefix_map, record.prefix)
    THEN /\ Returned("add_record", <<record.prefix, record.uri_prefix>>,
                     DuplicateRecordError(record.prefix))
         /\ UNCHANGED <<registry, inserted>>
    ELSE IF contains_key(uri_map, record.uri_prefix)
    THEN /\ Returned("add_record", <<record.prefix, record.uri_prefix>>,
                     DuplicateRecordError(record.uri_prefix))
         /\ UNCHANGED <<registry, inserted>>
    ELSE /\ Cardinality(inserted) < MaxRecords
         /\ prefix_map' = insert(prefix_map,
                                 {record.prefix} \cup record.prefix_synonyms, record)
         /\ uri_map' = insert(uri_map,
                              {record.uri_prefix} \cup record.uri_prefix_synonyms, record)
         /\ trie_builder' = push(trie_builder,
                                 {record.uri_prefix} \cup record.uri_prefix_synonyms)
         /\ trie' = build(trie_builder')
         /\ inserted' = inserted \cup {record}
         /\ Returned("add_record", <<record.prefix, record.uri_prefix>>, Ok)

AddRecord == \E record \in Records : add_record(record)

(***************************************************************************)
(* The queries: each leaves the registry alone and returns its result.     *)
(***************************************************************************)
FindByPrefix ==
  \E prefix \in Prefixes :
    /\ Returned("find_by_prefix", prefix, find_by_prefix(prefix))
    /\ UNCHANGED <<registry, inserted>>

FindByUriPrefix ==
  \E uri_prefix \in UriPrefixes :
    /\ Returned("find_by_uri_prefix", uri_prefix, find_by_uri_prefix(uri_prefix))
    /\ UNCHANGED <<registry, inserted>>

FindByUri ==
  \E uri \in Uris :
    /\ Returned("find_by_uri", uri, find_by_uri(uri))
    /\ UNCHANGED <<registry, inserted>>

Compress ==
  \E uri \in Uris :
    \E ret \in compress(uri) :
      /\ Returned("compress", uri, ret)
      /\ UNCHANGED <<registry, inserted>>

Expand ==
  \E curie \in Curies :
    /\ Returned("expand", curie, expand(curie))
    /\ UNCHANGED <<registry, inserted>>

Next ==
  \/ AddRecord
  \/ FindByPrefix
  \/ FindByUriPrefix
  \/ FindByUri
  \/ Compress
  \/ Expand
  \/ Drop

Spec == Init /\ [][Next]_vars

(***************************************************************************)
(* Vocabulary of the properties.                                           *)
(***************************************************************************)
\* the CURIE prefix:id
Curie(prefix, id) == prefix \o <<":">> \o id

PrefixForms(r) == {r.prefix} \cup r.prefix_synonyms

UriForms(r) == {r.uri_prefix} \cup r.uri_prefix_synonyms

HasColon(s) == \E i \in 1..Len(s) : s[i] = ":"

Colons(s) == Cardinality({i \in 1..Len(s) : s[i] = ":"})

\* the keys of the URI index that are a prefix of uri
Matches(uri) == {k \in DOMAIN uri_map : starts_with(uri, k)}

Suffixes(s) == {SubSeq(s, n + 1, Len(s)) : n \in 0..Len(s)}

Longest(S) == CHOOSE s \in S : \A t \in S : Len(t) <= Len(s)

QueryOps == {"find_by_prefix", "find_by_uri_prefix", "find_by_uri", "compress", "expand"}

\* expand applied to what compress returned
ExpandOf(c) == IF IsSome(c) THEN expand(c[2]) ELSE None

\* every result compress can give for what expand returned
CompressOf(u) == IF IsSome(u) THEN compress(u[2]) ELSE {None}

(***************************************************************************)
(* C1: add_record(r) returns DuplicateRecordError when r.prefix is already *)
(* a key of the prefix index or r.uri_prefix is already a key of the URI   *)
(* index, and that call leaves the prefix index, the URI index and the     *)
(* trie as they were.                                                      *)
(***************************************************************************)
C1_DuplicateRejected ==
  [][(/\ last'.op = "add_record"
      /\ last.op = "idle"
      /\ \/ last'.arg[1] \in DOMAIN prefix_map
         \/ last'.arg[2] \in DOMAIN uri_map)
       => /\ IsErr(last'.ret)
          /\ last'.ret[2] \in {last'.arg[1], last'.arg[2]}
          /\ UNCHANGED registry]_vars

\* a call refused because its URI prefix is taken, its prefix being free
C1_Witness ==
  /\ last.op = "add_record"
  /\ IsErr(last.ret)
  /\ last.arg[1] \notin DOMAIN prefix_map
  /\ last.ret[2] = last.arg[2]

C3_Original ==
  last = Idle =>
    \A r \in inserted : \A f \in UriForms(r) : \A local_id \in LocalIds :
      \A c \in compress(f \o local_id) :
        IsSome(c) /\ ExpandOf(c) = Some(f \o local_id)

(***************************************************************************)
(* C3 amended: for every inserted Record r, every local_id and every       *)
(* URI-prefix form f of r, compress(u) is found for u = f + local_id.      *)
(* When find_by_uri(u) is r, the prefix index maps r.prefix to r and       *)
(* r.prefix holds no ':', compress(u) is r.prefix:id for a suffix id of u; *)
(* if id holds no ':', expand(compress(u)) is r.uri_prefix + id, which is  *)
(* u exactly when r.uri_prefix is a prefix of u.  So the round trip holds  *)
(* for the canonical form with a local_id free of ':', and not for a       *)
(* synonym form that the canonical uri_prefix is no prefix of.             *)
(***************************************************************************)
C3_UriRoundTrip ==
  last = Idle =>
    \A r \in inserted : \A f \in UriForms(r) : \A local_id \in LocalIds :
      LET u == f \o local_id
      IN \A c \in compress(u) :
           /\ IsSome(c)
           /\ (/\ find_by_uri(u) = Some(r)
               /\ find_by_prefix(r.prefix) = Some(r)
               /\ ~HasColon(r.prefix))
              => /\ \E id \in Suffixes(u) :
                      /\ c = Some(Curie(r.prefix, id))
                      /\ ~HasColon(id) =>
                           /\ ExpandOf(c) = Some(r.uri_prefix \o id)
                           /\ ExpandOf(c) = Some(u) <=> starts_with(u, r.uri_prefix)
                 /\ (f = r.uri_prefix /\ ~HasColon(local_id)) => ExpandOf(c) = Some(u)

\* a Record that owns its keys and has a URI-prefix synonym is registered
C3_Witness ==
  /\ last = Idle
  /\ \E r \in inserted :
       /\ r.uri_prefix_synonyms # {}
       /\ ~HasColon(r.prefix)
       /\ find_by_prefix(r.prefix) = Some(r)
       /\ \A f \in UriForms(r) : find_by_uri(f \o <<"a">>) = Some(r)
       /\ \A c \in compress(r.uri_prefix \o <<"a">>) :
            ExpandOf(c) = Some(r.uri_prefix \o <<"a">>)
       /\ \E f \in r.uri_prefix_synonyms : \A c \in compress(f \o <<"a">>) :
            IsSome(c) /\ ExpandOf(c) # Some(f \o <<"a">>)

(***************************************************************************)
(* C4 as stated: for every inserted Record r, every local_id and every     *)
(* prefix form p of r (canonical or synonym), expand(p:local_id) is found  *)
(* and compress of it is p:local_id again.                                 *)
(***************************************************************************)
C4_Original ==
  last = Idle =>
    \A r \in inserted : \A p \in PrefixForms(r) : \A local_id \in LocalIds :
      LET c == Curie(p, local_id)
      IN /\ IsSome(expand(c))
         /\ CompressOf(expand(c)) = {Some(c)}

(***************************************************************************)
(* C4 amended: for every inserted Record r, every local_id and every       *)
(* prefix form p of r such that the prefix index maps p to r, neither p    *)
(* nor local_id holds a ':' and find_by_uri(r.uri_prefix + local_id) is r: *)
(* expand(p:local_id) is r.uri_prefix + local_id and compress of it is     *)
(* r.prefix:local_id, which is the CURIE given only when p is r.prefix.    *)
(***************************************************************************)
C4_CurieRoundTrip ==
  last = Idle =>
    \A r \in inserted : \A p \in PrefixForms(r) : \A local_id \in LocalIds :
      (/\ find_by_prefix(p) = Some(r)
       /\ ~HasColon(p)
       /\ ~HasColon(local_id)
       /\ find_by_uri(r.uri_prefix \o local_id) = Some(r))
      => LET c == Curie(p, local_id)
         IN /\ expand(c) = Some(r.uri_prefix \o local_id)
            /\ CompressOf(expand(c)) = {Some(Curie(r.prefix, local_id))}

\* a Record that owns its keys and has a prefix synonym without ':'
C4_Witness ==
  /\ last = Idle
  /\ \E r \in inserted :
       /\ \E p \in r.prefix_synonyms : ~HasColon(p) /\ find_by_prefix(p) = Some(r)
       /\ ~HasColon(r.prefix)
       /\ find_by_prefix(r.prefix) = Some(r)
       /\ find_by_uri(r.uri_prefix \o <<"a">>) = Some(r)
       /\ CompressOf(expand(Curie(r.prefix, <<"a">>))) = {Some(Curie(r.prefix, <<"a">>))}

C6_Expand ==
  last.op = "expand" =>
    LET curie == last.arg
    IN IF Colons(curie) # 1 THEN last.ret = None
       ELSE LET i == CHOOSE i \in 1..Len(curie) : curie[i] = ":"
                before == SubSeq(curie, 1, i - 1)
                after == SubSeq(curie, i + 1, Len(curie))
            IN IF before \notin DOMAIN prefix_map THEN last.ret = None
               ELSE last.ret = Some(prefix_map[before].uri_prefix \o after)

\* expand of ":" alone found: both parts empty
C6_Witness ==
  /\ last.op = "expand"
  /\ last.arg = <<":">>
  /\ IsSome(last.ret)

(***************************************************************************)
(* C7: compress(uri) is not-found exactly when find_by_uri(uri) is; when   *)
(* find_by_uri(uri) is the Record r, compress(uri) is r.prefix:suffix with *)
(* uri = f + suffix for some URI-prefix form f of r.                       *)
(***************************************************************************)
C7_CompressNeverLoses ==
  last.op = "compress" =>
    LET found == find_by_uri(last.arg)
    IN IF found = None THEN last.ret = None
       ELSE /\ IsSome(last.ret)
            /\ \E f \in UriForms(found[2]) :
                 /\ starts_with(last.arg, f)
                 /\ last.ret[2] = Curie(found[2].prefix,
                                     SubSeq(last.arg, Len(f) + 1, Len(last.arg)))

\* compress of a URI that only a synonym of its Record is a prefix of
C7_Witness ==
  /\ last.op = "compress"
  /\ IsSome(last.ret)
  /\ IsSome(find_by_uri(last.arg))
  /\ ~starts_with(last.arg, find_by_uri(last.arg)[2].uri_prefix)

(***************************************************************************)
(* C8 as stated: the prefix index maps the prefix and every prefix synonym *)
(* of every inserted Record r to r, and the URI index maps the uri_prefix  *)
(* and every URI-prefix synonym of r to r.                                 *)
(***************************************************************************)
C8_Ownership ==
  \A r \in inserted :
    /\ \A p \in PrefixForms(r) : find_by_prefix(p) = Some(r)
    /\ \A f \in UriForms(r) : find_by_uri_prefix(f) = Some(r)

(***************************************************************************)
(* C9 as stated: compress(uri) is decided by the registry and uri alone:   *)
(* whatever order the synonym set is iterated in, the result is the one    *)
(* the call returned.                                                      *)
(***************************************************************************)
C9_CompressDeterministic ==
  last.op = "compress" => compress(last.arg) = {last.ret}

(***************************************************************************)
(* C10: the key sets of the prefix index, the URI index and the trie only  *)
(* grow; a lookup that is found stays found after every later call; and no *)
(* query changes the registry.                                             *)
(***************************************************************************)
C10_AppendOnly ==
  [][/\ last'.op \in QueryOps => UNCHANGED registry
     /\ \/ UNCHANGED registry
        \/ /\ DOMAIN prefix_map \subseteq DOMAIN prefix_map'
           /\ DOMAIN uri_map \subseteq DOMAIN uri_map'
           /\ trie \subseteq trie'
           /\ trie_builder \subseteq trie_builder'
           /\ \A p \in Prefixes :
                IsSome(find_by_prefix(p)) => IsSome(find_by_prefix(p))'
           /\ \A f \in UriPrefixes :
                IsSome(find_by_uri_prefix(f)) => IsSome(find_by_uri_prefix(f))'
           /\ \A u \in Uris : IsSome(find_by_uri(u)) => IsSome(find_by_uri(u))']_vars

\* a second Record went in and a Record inserted before is still found
C10_Witness ==
  /\ last.op = "add_record"
  /\ last.ret = Ok
  /\ \E r \in inserted :
       /\ <<r.prefix, r.uri_prefix>> # last.arg
       /\ IsSome(find_by_uri(r.uri_prefix \o <<"a">>))
====
